---- MODULE Spec2Model ----
(***************************************************************************)
(* Model of src/utils/models/generic.py: the pydantic model                *)
(*                                                                         *)
(*     class Error(BaseModel):                                             *)
(*         message: str = Field(..., title="Message",                      *)
(*                              description="Error message")               *)
(*         class Config:                                                   *)
(*             schema_extra = {"example": {"message": "Error message"}}    *)
(*                                                                         *)
(* The class is written against the pydantic 1.x interface (a nested       *)
(* Config class carrying schema_extra), so the behaviour the declaration   *)
(* gets from BaseModel is that of pydantic 1.x with the Config defaults    *)
(* the class does not override: allow_mutation = True, validate_assignment *)
(* = False, extra = ignore, and the non-strict validator of a `str` field. *)
(*                                                                         *)
(* The operations are construct, Error(message=...), and describe_schema,  *)
(* Error.schema().                                                         *)
(***************************************************************************)
EXTENDS Integers, Sequences, FiniteSets, TLC

VARIABLES
    instances,      \* the live Error objects, in order of creation: each its __dict__
    schema_cache,   \* Error.__schema_cache__: <<>> or <<the schema computed once>>
    result          \* what the last call returned or raised to its caller

vars == <<instances, schema_cache, result>>

\* Most Error objects alive at once.
MaxInstances == 2

-----------------------------------------------------------------------------
(* Python values a caller can pass.  One record shape for all of them:     *)
(* kind names the Python type, s a str's text, n an int's or bool's value, *)
(* b a bytes object's bytes.                                               *)

Val(kind, s, n, b) == [kind |-> kind, s |-> s, n |-> n, b |-> b]

Str(s)   == Val("str", s, 0, <<>>)
PyInt(n) == Val("int", "", n, <<>>)
Bool(t)  == Val("bool", "", IF t THEN 1 ELSE 0, <<>>)
Bytes(b) == Val("bytes", "", 0, b)
None     == Val("NoneType", "", 0, <<>>)
List     == Val("list", "", 0, <<>>)
\* pydantic's sentinel for a key the caller's data does not hold
Missing  == Val("_missing", "", 0, <<>>)

\* What callers pass as `message` (Missing: the keyword is not passed at all).
Strings  == {Str(""), Str("Error message"), Str(" x ")}
NonStrings == {PyInt(123), PyInt(-7), Bool(TRUE), Bytes(<<104, 105>>), Bytes(<<255>>),
               None, List}
Values   == Strings \cup NonStrings
Inputs   == Values \cup {Missing}

-----------------------------------------------------------------------------
(* str(int): Python's decimal rendering.                                   *)

Digit(d) ==
    CASE d = 0 -> "0" [] d = 1 -> "1" [] d = 2 -> "2" [] d = 3 -> "3"
      [] d = 4 -> "4" [] d = 5 -> "5" [] d = 6 -> "6" [] d = 7 -> "7"
      [] d = 8 -> "8" [] d = 9 -> "9"

RECURSIVE NatToStr(_)
NatToStr(n) == IF n < 10 THEN Digit(n) ELSE NatToStr(n \div 10) \o Digit(n % 10)

IntToStr(n) == IF n < 0 THEN "-" \o NatToStr(-n) ELSE NatToStr(n)

(* bytes.decode(): UTF-8.  A byte below 0x80 is the ASCII character; 0xFF  *)
(* can start no UTF-8 sequence, so decode raises UnicodeDecodeError.       *)

Chr(c) == CASE c = 104 -> "h" [] c = 105 -> "i" [] OTHER -> "?"

Decodable(b) == \A i \in DOMAIN b : b[i] < 128

RECURSIVE Decode(_)
Decode(b) == IF b = <<>> THEN "" ELSE Chr(Head(b)) \o Decode(Tail(b))

-----------------------------------------------------------------------------
(* The declaration of the class.                                           *)

\* message: str = Field(..., title="Message", description="Error message")
message_field_with_default ==
    [name |-> "message", type |-> "str", required |-> FALSE,
     default |-> Str("Error message"), allow_none |-> FALSE,
     title |-> "Message", description |-> "Error message"]

message_field_optional ==
    [name |-> "message", type |-> "str", required |-> TRUE,
     default |-> Missing, allow_none |-> TRUE,
     title |-> "Message", description |-> "Error message"]

message_field_undescribed ==
    [name |-> "message", type |-> "str", required |-> TRUE,
     default |-> Missing, allow_none |-> FALSE,
     title |-> "Message", description |-> ""]

message_field ==
    [name |-> "message", type |-> "str", required |-> TRUE,
     default |-> Missing, allow_none |-> FALSE,
     title |-> "Message", description |-> "Error message"]

\* class Config: schema_extra = {"example": {"message": "Error message"}}
schema_extra_misspelt == [example |-> [message |-> Missing]]

schema_extra == [example |-> [message |-> Str("Error message")]]

\* Config sets neither allow_mutation nor validate_assignment: BaseConfig's
\* defaults stand.
allow_mutation_off == FALSE

allow_mutation == TRUE

validate_assignment == FALSE

-----------------------------------------------------------------------------
(* Validation of one value against `message: str`.                         *)

Ok(v)      == [ok |-> TRUE, value |-> v, type |-> "", msg |-> ""]
Err(v, type, msg) == [ok |-> FALSE, value |-> v, type |-> type, msg |-> msg]

\* The validator BaseModel attaches to a field annotated `str`: a str passes
\* unchanged, a number is rendered with str(), bytes are decoded, anything
\* else is a StrError.
str_validator_rejects_empty(v) ==
    CASE v.kind = "str" /\ v.s # "" -> Ok(v)
      [] v.kind = "int"   -> Ok(Str(IntToStr(v.n)))
      [] v.kind = "bool"  -> Ok(Str(IF v.n = 1 THEN "True" ELSE "False"))
      [] v.kind = "bytes" /\ Decodable(v.b) -> Ok(Str(Decode(v.b)))
      [] v.kind = "bytes" /\ ~Decodable(v.b) ->
            Err(v, "value_error.unicodedecode", "invalid start byte")
      [] OTHER -> Err(v, "type_error.str", "str type expected")

str_validator_no_decode(v) ==
    CASE v.kind = "str"   -> Ok(v)
      [] v.kind = "int"   -> Ok(Str(IntToStr(v.n)))
      [] v.kind = "bool"  -> Ok(Str(IF v.n = 1 THEN "True" ELSE "False"))
      [] v.kind = "bytes" -> Ok(v)
      [] OTHER -> Err(v, "type_error.str", "str type expected")

str_validator_wrong_type_as_missing(v) ==
    CASE v.kind = "str"   -> Ok(v)
      [] v.kind = "int"   -> Ok(Str(IntToStr(v.n)))
      [] v.kind = "bool"  -> Ok(Str(IF v.n = 1 THEN "True" ELSE "False"))
      [] v.kind = "bytes" /\ Decodable(v.b) -> Ok(Str(Decode(v.b)))
      [] v.kind = "bytes" /\ ~Decodable(v.b) ->
            Err(v, "value_error.unicodedecode", "invalid start byte")
      [] OTHER -> Err(v, "value_error.missing", "field required")

str_validator(v) ==
    CASE v.kind = "str"   -> Ok(v)
      [] v.kind = "int"   -> Ok(Str(IntToStr(v.n)))
      [] v.kind = "bool"  -> Ok(Str(IF v.n = 1 THEN "True" ELSE "False"))
      [] v.kind = "bytes" /\ Decodable(v.b) -> Ok(Str(Decode(v.b)))
      [] v.kind = "bytes" /\ ~Decodable(v.b) ->
            Err(v, "value_error.unicodedecode", "invalid start byte")
      [] OTHER -> Err(v, "type_error.str", "str type expected")

\* Validation of the caller's data against the one field: a key that is
\* absent is "field required" unless the field has a default; None is
\* refused before the validator runs; every other value goes to the
\* validator.
validate_field(v) ==
    IF v = Missing
    THEN IF message_field.required
         THEN Err(v, "value_error.missing", "field required")
         ELSE Ok(message_field.default)
    ELSE IF v = None
    THEN IF message_field.allow_none
         THEN Ok(None)
         ELSE Err(v, "type_error.none.not_allowed", "none is not an allowed value")
    ELSE str_validator(v)

\* validate_model: the values of the new object, or the list of errors that
\* ValidationError carries, each naming its field in loc.
validate_model(data) ==
    LET r == validate_field(data.message)
    IN  IF r.ok
        THEN [values |-> [message |-> r.value], errors |-> <<>>]
        ELSE [values |-> [message |-> Missing],
              errors |-> <<[loc |-> message_field.name, type |-> r.type, msg |-> r.msg]>>]

-----------------------------------------------------------------------------
(* Error.schema(): the JSON schema derived from the declaration, with       *)
(* Config.schema_extra merged in at the top level.                         *)

field_schema(f) ==
    [title |-> f.title, description |-> f.description,
     type |-> IF f.type = "str" THEN "string" ELSE f.type]

model_schema ==
    [title |-> "Error", description |-> "Error model", type |-> "object",
     properties |-> [message |-> field_schema(message_field)],
     required |-> IF message_field.required THEN <<message_field.name>> ELSE <<>>,
     example |-> schema_extra.example]

\* schema() answers from the cache once it is filled.
schema == IF schema_cache # <<>> THEN schema_cache[1] ELSE model_schema

-----------------------------------------------------------------------------
NoResult ==
    [op |-> "none", arg |-> Missing, ok |-> TRUE, raised |-> "", errors |-> <<>>,
     target |-> 0, schema |-> <<>>]

Init ==
    /\ instances = <<>>
    /\ schema_cache = <<>>
    /\ result = NoResult

\* The objects alive after __init__ stored the validated values in a new
\* object's own __dict__.
init_shared_dict(insts, values) ==
    Append([i \in DOMAIN insts |-> values], values)

init(insts, values) == Append(insts, values)

\* Error(message=...): validate, then build the object or raise ValidationError.
Call(op, data) ==
    LET r == validate_model(data)
    IN  IF r.errors = <<>>
        THEN /\ instances' = init(instances, r.values)
             /\ result' = [op |-> op, arg |-> data.message, ok |-> TRUE, raised |-> "",
                           errors |-> <<>>, target |-> Len(instances) + 1,
                           schema |-> <<>>]
        ELSE /\ instances' = instances
             /\ result' = [op |-> op, arg |-> data.message, ok |-> FALSE,
                           raised |-> "ValidationError", errors |-> r.errors,
                           target |-> 0, schema |-> <<>>]

\* construct(message = v), or construct() when v is Missing
Construct(v) ==
    /\ Len(instances) < MaxInstances
    /\ Call("construct", [message |-> v])
    /\ UNCHANGED schema_cache

\* describe_schema()
DescribeSchema ==
    /\ schema_cache' = <<schema>>
    /\ result' = [op |-> "schema", arg |-> Missing, ok |-> TRUE, raised |-> "",
                  errors |-> <<>>, target |-> 0, schema |-> <<schema>>]
    /\ UNCHANGED instances

\* construct applied to describe_schema()["example"]
ConstructExample ==
    /\ Len(instances) < MaxInstances
    /\ schema_cache' = <<schema>>
    /\ Call("construct_example", schema.example)

\* instances[i].message = v.  BaseModel.__setattr__: TypeError when the
\* Config forbids mutation, validation when it asks for it, else the value
\* is stored as given.
SetMessage(i, v) ==
    /\ i \in DOMAIN instances
    /\ IF ~allow_mutation
       THEN /\ instances' = instances
            /\ result' = [op |-> "setattr", arg |-> v, ok |-> FALSE, raised |-> "TypeError",
                          errors |-> <<>>, target |-> i, schema |-> <<>>]
       ELSE LET r == IF validate_assignment THEN validate_field(v) ELSE Ok(v)
            IN  IF r.ok
                THEN /\ instances' = [instances EXCEPT ![i].message = r.value]
                     /\ result' = [op |-> "setattr", arg |-> v, ok |-> TRUE, raised |-> "",
                                   errors |-> <<>>, target |-> i, schema |-> <<>>]
                ELSE /\ instances' = instances
                     /\ result' = [op |-> "setattr", arg |-> v, ok |-> FALSE,
                                   raised |-> "ValidationError",
                                   errors |-> <<[loc |-> "message", type |-> r.type,
                                                 msg |-> r.msg]>>,
                                   target |-> i, schema |-> <<>>]
    /\ UNCHANGED schema_cache

\* The last reference to an object is dropped and it is collected.
Release ==
    /\ instances # <<>>
    /\ instances' = SubSeq(instances, 1, Len(instances) - 1)
    /\ result' = NoResult
    /\ UNCHANGED schema_cache

Next ==
    \/ \E v \in Inputs : Construct(v)
    \/ DescribeSchema
    \/ ConstructExample
    \/ \E i \in 1..MaxInstances, v \in Values : SetMessage(i, v)
    \/ Release

Spec == Init /\ [][Next]_vars

-----------------------------------------------------------------------------
(* Properties.  result is what the last call gave its caller, so a         *)
(* predicate on result speaks of the state right after that call.          *)

IsConstruct == result.op \in {"construct", "construct_example"}

TypeErrors == {"type_error.str", "type_error.none.not_allowed"}

\* C1: every Error object that exists has a message that is a str.
C1_MessageAlwaysString ==
    \A i \in DOMAIN instances : instances[i].message.kind = "str"

\* C2: construct(message = s) for a str s, the empty one included, succeeds
\* and the new object's message is s exactly.
C2_RoundTrip ==
    (result.op = "construct" /\ result.arg.kind = "str") =>
        /\ result.ok
        /\ result.target = Len(instances)
        /\ instances[result.target].message = result.arg

C2_Witness ==
    /\ result.op = "construct"
    /\ result.arg = Str("")
    /\ result.ok
    /\ instances[result.target].message = Str("")

\* C3: construct() without message raises ValidationError, makes no object
\* and substitutes no default for the missing field.
C3_MissingRejected ==
    [][(result'.op = "construct" /\ result'.arg = Missing) =>
            /\ ~result'.ok
            /\ result'.raised = "ValidationError"
            /\ instances' = instances]_vars

C3_Witness ==
    /\ result.op = "construct"
    /\ result.arg = Missing
    /\ result.raised = "ValidationError"
    /\ result.errors[1].type = "value_error.missing"

C6_ExampleAccepted ==
    result.op = "construct_example" =>
        /\ result.ok
        /\ result.errors = <<>>
        /\ instances[result.target].message = Str("Error message")

C6_Witness ==
    /\ result.op = "construct_example"
    /\ result.ok
    /\ schema_cache # <<>>

\* C7: describe_schema() names the field message, of type string, required,
\* titled "Message", described "Error message", with the top-level example
\* {message: "Error message"}.
C7_SchemaContents ==
    result.op = "schema" =>
        /\ Len(result.schema) = 1
        /\ LET s == result.schema[1]
           IN  /\ DOMAIN s.properties = {"message"}
               /\ s.properties.message.type = "string"
               /\ s.properties.message.title = "Message"
               /\ s.properties.message.description = "Error message"
               /\ s.required = <<"message">>
               /\ s.example = [message |-> Str("Error message")]

C7_Witness ==
    /\ result.op = "schema"
    /\ result.schema # <<>>
    /\ instances # <<>>

\* C8: construct(message = None) raises ValidationError citing message as
\* required or of an invalid type, and makes no object.
C8_NoneRejected ==
    [][(result'.op = "construct" /\ result'.arg = None) =>
            /\ ~result'.ok
            /\ result'.raised = "ValidationError"
            /\ Len(result'.errors) = 1
            /\ result'.errors[1].loc = "message"
            /\ result'.errors[1].type \in TypeErrors \cup {"value_error.missing"}
            /\ instances' = instances]_vars

C8_Witness ==
    /\ result.op = "construct"
    /\ result.arg = None
    /\ result.raised = "ValidationError"
    /\ result.errors[1].type = "type_error.none.not_allowed"

C10_ConstructFrame ==
    [][result'.op \in {"construct", "construct_example"} =>
            /\ \A i \in DOMAIN instances :
                    i \in DOMAIN instances' /\ instances'[i] = instances[i]
            /\ schema' = schema]_vars

C10_Witness ==
    /\ result.op = "construct"
    /\ result.ok
    /\ result.target = 2
    /\ instances[1].message # instances[2].message
    /\ schema_cache # <<>>

====
